---- MODULE Spec2Model ----
(***************************************************************************)
(* Generalized Sudoku solver: the board's constraint model (board.py) and  *)
(* the backtracking search engine (solver.py), as a state machine over an  *)
(* explicit call stack.                                                    *)
(*                                                                         *)
(* Python objects are modelled with a heap: a SudokuBoard object is a      *)
(* record whose `board` field holds the identities of its row lists, and   *)
(* `heap` maps a row-list identity to the row's contents.  Indices are     *)
(* 0-based as in the source.                                               *)
(***************************************************************************)
EXTENDS Integers, Sequences, FiniteSets, TLC

VARIABLES
    heap,                  \* row-list identity -> row contents
    board,                 \* the caller's SudokuBoard object
    phase,                 \* position of the calling code
    use_mrv,               \* SudokuSolver.use_mrv
    use_forward_checking,  \* SudokuSolver.use_forward_checking
    use_prolog,            \* SudokuSolver.use_prolog
    generate_explanations, \* SudokuSolver.generate_explanations
    step_callback,         \* TRUE iff a step observer is registered
    nodes_explored,        \* SudokuSolver.nodes_explored
    backtrack_count,       \* SudokuSolver.backtrack_count
    solve_time,            \* SudokuSolver.solve_time
    explanations,          \* SudokuSolver.explanations
    working_board,         \* solve()'s local working_board
    stack,                 \* the frames of _backtrack, innermost last
    ret,                   \* value returned by the _backtrack call that ended last
    result,                \* the tuple returned by solve()
    input0,                \* grid of the caller's board when solve() was called
    calls,                 \* number of _backtrack invocations of this solve()
    undone,                \* number of trial assignments reset to empty
    cb_count,              \* number of observer invocations of this solve()
    cb_last,               \* arguments of the last observer invocation
    prev,                  \* outcome of the previous solve() on this input
    runs,                  \* number of solve() calls made so far
    puzzle,                \* the str last returned by to_string()
    raised,                \* exception raised by the last load of the board
    ops,                   \* number of operations made on the caller's board
    generator              \* locals of SudokuGenerator.generate

vars == <<heap, board, phase, use_mrv, use_forward_checking, use_prolog,
          generate_explanations, step_callback, nodes_explored,
          backtrack_count, solve_time, explanations, working_board, stack,
          ret, result, input0, calls, undone, cb_count, cb_last, prev, runs,
          puzzle, raised, ops, generator>>

----------------------------------------------------------------------------
(* Bounds *)

MaxRuns == 2          \* solve() calls per behaviour
MaxTime == 1          \* elapsed times are drawn from 0..MaxTime
MaxOps == 2           \* operations the caller makes on a board of its own
MaxDisagree == 1      \* validator answers per solve() that differ from the
                      \* local candidate set

----------------------------------------------------------------------------
(* board.py *)

NoBoard == [n |-> 0, board_size |-> 0, board |-> <<>>]

Idx(b) == 0 .. (b.board_size - 1)

\* SudokuBoard.__init__: an empty board of box size `size`; its row lists
\* get the identities base+1 .. base+size*size.
NewBoard(size, base) ==
    [n |-> size, board_size |-> size * size,
     board |-> [i \in 0 .. (size * size - 1) |-> base + 1 + i]]

\* the grid (row -> column -> value) an object denotes in heap h
GridOf(h, b) == [r \in Idx(b) |-> h[b.board[r]]]

get(h, b, row, col) == h[b.board[row]][col]

\* set that writes the cell to the right of (row, col)
set_next_col(h, b, row, col, value) ==
    [h EXCEPT ![b.board[row]][(col + 1) % b.board_size] = value]

set(h, b, row, col, value) ==
    [h EXCEPT ![b.board[row]] = [@ EXCEPT ![col] = value]]

is_empty(h, b, row, col) == h[b.board[row]][col] = 0

get_box_index(b, row, col) ==
    <<(row \div b.n) * b.n, (col \div b.n) * b.n>>

\* get_candidates without the removal of the box's values
get_candidates_no_box(h, b, row, col) ==
    IF h[b.board[row]][col] # 0 THEN {}
    ELSE ((1 .. b.board_size) \ {h[b.board[row]][c] : c \in Idx(b)})
             \ {h[b.board[r]][col] : r \in Idx(b)}

get_candidates(h, b, row, col) ==
    IF ~is_empty(h, b, row, col) THEN {}
    ELSE LET box == get_box_index(b, row, col)
             rowvals == {h[b.board[row]][c] : c \in Idx(b)}
             colvals == {h[b.board[r]][col] : r \in Idx(b)}
             boxvals == {h[b.board[r]][c] :
                            r \in box[1] .. (box[1] + b.n - 1),
                            c \in box[2] .. (box[2] + b.n - 1)}
         IN (((1 .. b.board_size) \ rowvals) \ colvals) \ boxvals

is_complete(h, b) ==
    \A r \in Idx(b), c \in Idx(b) : h[b.board[r]][c] # 0

\* is_valid_solution that stops after the completeness test
is_valid_solution_complete_only(h, b) == is_complete(h, b)

is_valid_solution(h, b) ==
    /\ is_complete(h, b)
    /\ \A i \in Idx(b) :
          /\ Cardinality({h[b.board[i]][c] : c \in Idx(b)}) = b.board_size
          /\ Cardinality({h[b.board[r]][i] : r \in Idx(b)}) = b.board_size
    /\ \A box_r \in {k * b.n : k \in 0 .. (b.n - 1)},
          box_c \in {k * b.n : k \in 0 .. (b.n - 1)} :
          Cardinality({h[b.board[r]][c] :
                          r \in box_r .. (box_r + b.n - 1),
                          c \in box_c .. (box_c + b.n - 1)}) = b.board_size

\* copy that shares the row lists with the original
copy_shallow(h, b, base) ==
    [obj |-> [n |-> b.n, board_size |-> b.board_size, board |-> b.board],
     heap |-> h]

\* SudokuBoard.copy: a new object with new row lists holding the same values
copy(h, b, base) ==
    LET nb == NewBoard(b.n, base)
    IN [obj |-> nb,
        heap |-> [id \in (DOMAIN h) \cup {nb.board[r] : r \in Idx(nb)} |->
                    IF \E r \in Idx(nb) : nb.board[r] = id
                    THEN h[b.board[CHOOSE r \in Idx(nb) : nb.board[r] = id]]
                    ELSE h[id]]]

\* SudokuBoard(size).from_list(rows): rows is a tuple of tuples (1-based);
\* every row is copied into a row list of the new object.
from_list(size, rows, base) ==
    LET nb == NewBoard(size, base)
    IN [obj |-> nb,
        heap |-> [id \in {nb.board[r] : r \in Idx(nb)} |->
                    LET r == CHOOSE rr \in Idx(nb) : nb.board[rr] = id
                    IN [c \in Idx(nb) |-> rows[r + 1][c + 1]]]]

\* from_list, lines 62-65: the size test that raises ValueError
from_list_raises(size, rows) ==
    \/ Len(rows) # size * size
    \/ \E r \in 1 .. Len(rows) : Len(rows[r]) # size * size

\* A Python str is the sequence of the code points of its characters.

\* str.isalnum() on an ASCII character
isalnum(ch) == ch \in (48 .. 57) \cup (65 .. 90) \cup (97 .. 122)

\* int(ch, 36) for an alphanumeric ASCII character
int36(ch) ==
    IF ch \in 48 .. 57 THEN ch - 48
    ELSE IF ch \in 65 .. 90 THEN ch - 55
    ELSE ch - 87

\* to_string: "." for 0, str(val) for 1..9, chr(55 + val) from 10 on
to_string(h, b) ==
    [k \in 1 .. (b.board_size * b.board_size) |->
        LET val == h[b.board[(k - 1) \div b.board_size]]
                    [(k - 1) % b.board_size]
        IN IF val = 0 THEN 46
           ELSE IF val < 10 THEN 48 + val
           ELSE 55 + val]

\* from_string, line 35: "." becomes "0", blanks and newlines are dropped
Normalize(s) ==
    SelectSeq([i \in 1 .. Len(s) |-> IF s[i] = 46 THEN 48 ELSE s[i]],
              LAMBDA ch : ch \notin {32, 10})

\* from_string, line 43: the value a character stands for
DecodeChar(ch) == IF isalnum(ch) THEN int36(ch) ELSE 0

\* from_string on object b: the heap after the call and the exception it
\* raised.  The cells are written in row-major order up to the first
\* character whose value exceeds board_size.
from_string(h, b, s) ==
    LET p == Normalize(s)
        cells == b.board_size * b.board_size
    IN IF Len(p) # cells
       THEN [heap |-> h, raised |-> "ValueError"]
       ELSE LET bad == {k \in 1 .. cells : DecodeChar(p[k]) > b.board_size}
                stop == IF bad = {} THEN cells + 1
                        ELSE CHOOSE k \in bad : \A j \in bad : k <= j
            IN [heap |->
                   [id \in DOMAIN h |->
                      IF \E r \in Idx(b) : b.board[r] = id
                      THEN LET r == CHOOSE rr \in Idx(b) : b.board[rr] = id
                           IN [c \in Idx(b) |->
                                 IF r * b.board_size + c + 1 < stop
                                 THEN DecodeChar(p[r * b.board_size + c + 1])
                                 ELSE h[id][c]]
                      ELSE h[id]],
                raised |-> IF bad = {} THEN "none" ELSE "ValueError"]

----------------------------------------------------------------------------
(* solver.py: helpers *)

NoCell == <<-1, -1>>           \* None returned by _select_unassigned_variable

\* One trace entry.  The text of an entry is determined by its kind and its
\* arguments: row, col, num (a count), txt (a formatted value) and cands (the
\* formatted candidate list).
Entry(kind, row, col, num, txt, cands) ==
    [kind |-> kind, row |-> row, col |-> col, num |-> num, txt |-> txt,
     cands |-> cands]

Msg(kind) == Entry(kind, -1, -1, -1, "", <<>>)

\* Iteration order of a Python set of small positive integers: the elements
\* sit in the hash table at slot = value, so they are visited in ascending
\* order.
SetIterOrder(S) ==
    [i \in 1 .. Cardinality(S) |->
        CHOOSE x \in S : Cardinality({y \in S : y < x}) = i - 1]

_format_value(value, n) ==
    IF value = 0 THEN "."
    ELSE IF value <= 9
         THEN <<"1", "2", "3", "4", "5", "6", "7", "8", "9">>[value]
         ELSE <<"A", "B", "C", "D", "E", "F", "G">>[value - 9]

\* _add_explanation that ignores generate_explanations
_add_explanation_always(expl, text) == Append(expl, text)

_add_explanation(expl, text) ==
    IF generate_explanations THEN Append(expl, text) ELSE expl

\* _is_consistent that looks at the first row of the board only
_is_consistent_first_row(h, b) ==
    \A c \in Idx(b) :
        is_empty(h, b, 0, c) => Cardinality(get_candidates(h, b, 0, c)) # 0

\* _is_consistent without the is_empty test: filled cells have no candidates
_is_consistent_all_cells(h, b) ==
    \A r \in Idx(b), c \in Idx(b) :
        Cardinality(get_candidates(h, b, r, c)) # 0

\* _is_consistent that also rejects cells with a single candidate left
_is_consistent_off_by_one(h, b) ==
    \A r \in Idx(b), c \in Idx(b) :
        is_empty(h, b, r, c) => Cardinality(get_candidates(h, b, r, c)) > 1

\* _is_consistent with its two return values exchanged
_is_consistent_inverted(h, b) ==
    \E r \in Idx(b), c \in Idx(b) :
        is_empty(h, b, r, c) /\ Cardinality(get_candidates(h, b, r, c)) = 0

_is_consistent(h, b) ==
    \A r \in Idx(b), c \in Idx(b) :
        is_empty(h, b, r, c) => Cardinality(get_candidates(h, b, r, c)) # 0

\* The scan of _select_unassigned_variable with MRV disabled, from cell
\* number k (row-major) on: the loop over the rows and, in each row, the
\* loop over the columns.
FirstEmpty(h, b, k) ==
    LET side == b.board_size
        cols[r \in 0 .. (side - 1), c \in 0 .. side] ==
            IF c = side THEN NoCell
            ELSE IF is_empty(h, b, r, c) THEN <<r, c>> ELSE cols[r, c + 1]
        rows[r \in 0 .. side] ==
            IF r = side THEN NoCell
            ELSE LET row == cols[r, IF r = k \div side THEN k % side ELSE 0]
                 IN IF row # NoCell THEN row ELSE rows[r + 1]
    IN rows[k \div side]

\* the MRV scan that keeps the last cell with the minimum candidate count
MrvScan_last_tie(h, b, k, min_candidates, best_cell) ==
    LET side == b.board_size
        cols[r \in 0 .. (side - 1), c \in 0 .. side, m \in 0 .. (side + 1),
             best \in {NoCell} \cup (Idx(b) \X Idx(b))] ==
            IF c = side
            THEN [cell |-> best, min |-> m, dead |-> FALSE]
            ELSE LET num_candidates == Cardinality(get_candidates(h, b, r, c))
                 IN IF ~is_empty(h, b, r, c)
                    THEN cols[r, c + 1, m, best]
                    ELSE IF num_candidates = 0
                    THEN [cell |-> <<r, c>>, min |-> m, dead |-> TRUE]
                    ELSE IF num_candidates <= m
                    THEN cols[r, c + 1, num_candidates, <<r, c>>]
                    ELSE cols[r, c + 1, m, best]
        rows[r \in 0 .. side, m \in 0 .. (side + 1),
             best \in {NoCell} \cup (Idx(b) \X Idx(b))] ==
            IF r = side
            THEN [cell |-> best, min |-> m, dead |-> FALSE]
            ELSE LET row == cols[r, IF r = k \div side THEN k % side ELSE 0,
                                m, best]
                 IN IF row.dead THEN row ELSE rows[r + 1, row.min, row.cell]
    IN rows[k \div side, min_candidates, best_cell]

\* The scan of _select_unassigned_variable with MRV enabled, from cell number
\* k on, with the running minimum and best cell: the loop over the rows and,
\* in each row, the loop over the columns.  `dead` tells that the scan
\* returned early on a cell without candidates.
MrvScan(h, b, k, min_candidates, best_cell) ==
    LET side == b.board_size
        cols[r \in 0 .. (side - 1), c \in 0 .. side, m \in 0 .. (side + 1),
             best \in {NoCell} \cup (Idx(b) \X Idx(b))] ==
            IF c = side
            THEN [cell |-> best, min |-> m, dead |-> FALSE]
            ELSE LET num_candidates == Cardinality(get_candidates(h, b, r, c))
                 IN IF ~is_empty(h, b, r, c)
                    THEN cols[r, c + 1, m, best]
                    ELSE IF num_candidates = 0
                    THEN [cell |-> <<r, c>>, min |-> m, dead |-> TRUE]
                    ELSE IF num_candidates < m
                    THEN cols[r, c + 1, num_candidates, <<r, c>>]
                    ELSE cols[r, c + 1, m, best]
        rows[r \in 0 .. side, m \in 0 .. (side + 1),
             best \in {NoCell} \cup (Idx(b) \X Idx(b))] ==
            IF r = side
            THEN [cell |-> best, min |-> m, dead |-> FALSE]
            ELSE LET row == cols[r, IF r = k \div side THEN k % side ELSE 0,
                                m, best]
                 IN IF row.dead THEN row ELSE rows[r + 1, row.min, row.cell]
    IN rows[k \div side, min_candidates, best_cell]

\* _select_unassigned_variable: the selected cell and the trace after it
\* (s is the outcome of the one scan the method makes)
_select_unassigned_variable(h, b, expl) ==
    IF ~use_mrv
    THEN [cell |-> FirstEmpty(h, b, 0), expl |-> expl]
    ELSE CHOOSE sel \in
            {IF s.dead \/ s.cell = NoCell
             THEN [cell |-> s.cell, expl |-> expl]
             ELSE LET best == SetIterOrder(
                                 get_candidates(h, b, s.cell[1], s.cell[2]))
                  IN [cell |-> s.cell,
                      expl |-> _add_explanation(expl,
                         Entry("[MRV] Selected cell", s.cell[1], s.cell[2],
                               s.min, "",
                               [i \in 1 .. Len(best) |->
                                   _format_value(best[i], b.n)]))] :
             s \in {MrvScan(h, b, 0, b.board_size + 1, NoCell)}} : TRUE

\* The answer of PrologValidator.get_candidates: None, or a list of values
NoOpinion == [given |-> FALSE, values |-> <<>>]

Opinion(values) == [given |-> TRUE, values |-> values]

\* str() of a small value, as the f-string of the warning prints it
str(value) ==
    <<"0", "1", "2", "3", "4", "5", "6", "7", "8", "9">>[value + 1]

\* set(q) of a Python list q
SetOf(q) == {q[i] : i \in 1 .. Len(q)}

\* the number of validator warnings in a trace
Warnings(expl) ==
    Cardinality({i \in 1 .. Len(expl) :
        expl[i].kind = "  [WARN] Prolog found different candidates"})

\* _prolog_get_candidates: the answers the validator may give for a cell
\* whose local candidate list is candidates.  Without an available validator
\* the answer is None; an available one may give no opinion, the local list,
\* or another list (the empty one, or [1]).
_prolog_get_candidates(candidates, expl) ==
    IF ~use_prolog THEN {NoOpinion}
    ELSE {a \in {NoOpinion, Opinion(candidates), Opinion(<<>>),
                 Opinion(<<1>>)} :
            (a.given /\ SetOf(a.values) # SetOf(candidates)) =>
                Warnings(expl) < MaxDisagree}

\* _get_candidates_with_explanation that returns the validator's list when
\* the validator gives one
_get_candidates_with_explanation_prolog_wins(h, b, row, col, expl, prolog_candidates) ==
    LET candidates == SetIterOrder(get_candidates(h, b, row, col))
    IN [candidates |-> IF prolog_candidates.given
                       THEN prolog_candidates.values ELSE candidates,
        expl |-> IF /\ use_prolog
                    /\ prolog_candidates.given
                    /\ SetOf(candidates) # SetOf(prolog_candidates.values)
                 THEN _add_explanation(expl,
                        Entry("  [WARN] Prolog found different candidates",
                              -1, -1, -1, "",
                              [i \in 1 .. Len(prolog_candidates.values) |->
                                  str(prolog_candidates.values[i])]))
                 ELSE expl]

\* _get_candidates_with_explanation: the local candidates, and the trace
\* after the cross-check against the validator's answer
_get_candidates_with_explanation(h, b, row, col, expl, prolog_candidates) ==
    LET candidates == SetIterOrder(get_candidates(h, b, row, col))
    IN [candidates |-> candidates,
        expl |-> IF /\ use_prolog
                    /\ prolog_candidates.given
                    /\ SetOf(candidates) # SetOf(prolog_candidates.values)
                 THEN _add_explanation(expl,
                        Entry("  [WARN] Prolog found different candidates",
                              -1, -1, -1, "",
                              [i \in 1 .. Len(prolog_candidates.values) |->
                                  str(prolog_candidates.values[i])]))
                 ELSE expl]

----------------------------------------------------------------------------
(* Input boards *)

\* the solved 4x4 grid named in test_cases.test_4x4
Base4 == << <<1, 2, 3, 4>>, <<3, 4, 1, 2>>, <<2, 1, 4, 3>>, <<4, 3, 2, 1>> >>

\* the puzzle of test_cases.test_4x4, "1.3...1...4.4.2."
Puzzle4 == << <<1, 0, 3, 0>>, <<0, 0, 1, 0>>, <<0, 0, 4, 0>>, <<4, 0, 2, 0>> >>

\* a 4x4 board without duplicates that has no completion
Unsat4 == << <<0, 0, 0, 1>>, <<0, 0, 0, 2>>, <<1, 2, 0, 0>>, <<0, 0, 0, 0>> >>

\* the solution of the 9x9 puzzle of test_cases.test_9x9_easy
Base9 == << <<5, 3, 4, 6, 7, 8, 9, 1, 2>>, <<6, 7, 2, 1, 9, 5, 3, 4, 8>>,
            <<1, 9, 8, 3, 4, 2, 5, 6, 7>>, <<8, 5, 9, 7, 6, 1, 4, 2, 3>>,
            <<4, 2, 6, 8, 5, 3, 7, 9, 1>>, <<7, 1, 3, 9, 2, 4, 8, 5, 6>>,
            <<9, 6, 1, 5, 3, 7, 2, 8, 4>>, <<2, 8, 7, 4, 1, 9, 6, 3, 5>>,
            <<3, 4, 5, 2, 8, 6, 1, 7, 9>> >>

\* cells (row-major numbers) whose clue may be replaced by another value
PokeCells == {10, 15}

NoPoke == <<-1, 0>>

\* base with its first p cells (row-major) and the cells of `extra` emptied
\* and, when poke[1] is a clue cell, that clue replaced by poke[2]
Carve(base, side, p, extra, poke) ==
    [r \in 1 .. side |-> [c \in 1 .. side |->
        LET k == (r - 1) * side + (c - 1)
        IN IF k < p \/ k \in extra THEN 0
           ELSE IF k = poke[1] THEN poke[2]
           ELSE base[r][c]]]

\* 4x4 inputs: the test puzzle; the solved grid with a prefix emptied, with
\* or without its last cell; the solved grid with one cell emptied; the grid
\* with a prefix emptied and one wrong clue; the unsatisfiable board with a
\* prefix emptied
Inputs4 ==
    {[n |-> 2, rows |-> Puzzle4]}
    \cup {[n |-> 2, rows |-> Carve(Base4, 4, p, extra, NoPoke)] :
            p \in 0 .. 16, extra \in {{}, {15}}}
    \cup {[n |-> 2, rows |-> Carve(Base4, 4, 0, {k}, NoPoke)] : k \in 0 .. 15}
    \cup {[n |-> 2, rows |-> Carve(Base4, 4, p, {}, poke)] :
            p \in 0 .. 8, poke \in PokeCells \X (1 .. 4)}
    \cup {[n |-> 2, rows |-> Carve(Unsat4, 4, p, {}, NoPoke)] : p \in 0 .. 16}

\* 9x9 inputs: the solved grid with at most one cell emptied
Inputs9 ==
    {[n |-> 3, rows |-> Carve(Base9, 9, 0, extra, NoPoke)] :
        extra \in {{}} \cup {{k} : k \in 0 .. 80}}

Inputs == Inputs4 \cup Inputs9

----------------------------------------------------------------------------
(* State machine *)

NoResult == [returned |-> FALSE, success |-> FALSE, board |-> NoBoard]

NoPrev == [valid |-> FALSE, use_mrv |-> FALSE, use_forward_checking |-> FALSE,
           use_prolog |-> FALSE, success |-> FALSE, grid |-> <<>>, nodes_explored |-> 0,
           backtrack_count |-> 0, explanations |-> <<>>]

NoCallback == [grid |-> <<>>, entry |-> Msg("")]

Frame(pc, row, col, candidates, idx) ==
    [pc |-> pc, row |-> row, col |-> col, candidates |-> candidates,
     idx |-> idx]

NewFrame == Frame("enter", -1, -1, <<>>, 0)

Top == stack[Len(stack)]

Pop == SubSeq(stack, 1, Len(stack) - 1)

SetTop(f) == [stack EXCEPT ![Len(stack)] = f]

\* the trace without the elapsed time of its final entry
SansTime(expl) ==
    [i \in 1 .. Len(expl) |->
        IF expl[i].kind = "Solution found" THEN [expl[i] EXCEPT !.num = 0]
        ELSE expl[i]]

\* what the caller keeps of a finished solve()
Summary ==
    [valid |-> TRUE, use_mrv |-> use_mrv,
     use_forward_checking |-> use_forward_checking,
     use_prolog |-> use_prolog,
     success |-> result.success,
     grid |-> IF result.success THEN GridOf(heap, result.board) ELSE <<>>,
     nodes_explored |-> nodes_explored, backtrack_count |-> backtrack_count,
     explanations |-> SansTime(explanations)]

\* the heap without the row lists no object of objs refers to
Collect(h, objs) ==
    LET live == UNION {{o.board[r] : r \in Idx(o)} : o \in objs}
    IN [id \in live |-> h[id]]

\* no generator at work
NoGenerator ==
    [n |-> 0, attempt |-> 0, difficulty |-> "", puzzle |-> NoBoard]

\* no solver is constructed yet and no operation is made on the board
InitSolver ==
    /\ use_mrv = FALSE
    /\ use_forward_checking = FALSE
    /\ use_prolog = FALSE
    /\ generate_explanations = FALSE
    /\ step_callback = FALSE
    /\ nodes_explored = 0
    /\ backtrack_count = 0
    /\ solve_time = 0
    /\ explanations = <<>>
    /\ working_board = NoBoard
    /\ stack = <<>>
    /\ ret = "none"
    /\ result = NoResult
    /\ input0 = <<>>
    /\ calls = 0
    /\ undone = 0
    /\ cb_count = 0
    /\ cb_last = NoCallback
    /\ prev = NoPrev
    /\ runs = 0
    /\ puzzle = <<>>
    /\ raised = "none"
    /\ ops = 0

InitWith(inputs) ==
    /\ \E inp \in inputs :
          LET fl == from_list(inp.n, inp.rows, 0)
          IN /\ heap = fl.heap
             /\ board = fl.obj
    /\ phase = "init"
    /\ generator = NoGenerator
    /\ InitSolver

Init == InitWith(Inputs)

\* pyswip cannot be imported: prolog_validator.PROLOG_AVAILABLE
PROLOG_AVAILABLE == FALSE

\* The outcomes of PrologValidator.__init__ when Prolog is asked for: pyswip
\* is not importable ("absent"), Prolog() or the rules file fails with an
\* error message ("failed"), or the rules are loaded ("available")
Validators == {"absent", "failed", "available"}

\* SudokuSolver.__init__, with the outcome of PrologValidator.__init__
ConstructWith(mrv, fc, prolog, callback, explain, validator) ==
    /\ phase \in {"init", "returned"}
    /\ runs < MaxRuns
    /\ use_mrv' = mrv
    /\ use_forward_checking' = fc
    /\ step_callback' = callback
    /\ generate_explanations' = explain
    /\ nodes_explored' = 0
    /\ backtrack_count' = 0
    /\ solve_time' = 0
    /\ use_prolog' = (prolog /\ validator = "available")
    /\ explanations' =
          IF ~prolog \/ ~explain THEN <<>>
          ELSE IF validator = "available"
               THEN <<Msg("Prolog constraint checker initialized")>>
               ELSE IF validator = "failed"
                    THEN <<Msg("[WARN] Prolog initialization failed")>>
                    ELSE <<Msg("[WARN] Prolog not available, using Python validation")>>
    /\ prev' = IF phase = "returned" THEN Summary ELSE prev
    /\ phase' = "ready"
    /\ UNCHANGED <<generator, puzzle, raised, ops,
                   heap, board, working_board, stack, ret, result, input0,
                   calls, undone, cb_count, cb_last, runs>>

\* SudokuSolver.__init__ where pyswip is importable or not as
\* PROLOG_AVAILABLE says
Construct(mrv, fc, prolog, callback, explain) ==
    ConstructWith(mrv, fc, prolog, callback, explain,
                  IF PROLOG_AVAILABLE THEN "available" ELSE "absent")

\* solve that forgets to reset the trace
solve_reset_keeps_trace ==
    [nodes_explored |-> 0, backtrack_count |-> 0,
     explanations |-> explanations]

\* solve that forgets to reset backtrack_count
solve_reset_keeps_backtracks ==
    [nodes_explored |-> 0, backtrack_count |-> backtrack_count,
     explanations |-> <<>>]

\* solve, lines 72-74: the statistics and the trace start afresh
solve_reset ==
    [nodes_explored |-> 0, backtrack_count |-> 0, explanations |-> <<>>]

\* SudokuSolver.solve up to the call of _backtrack
Solve ==
    /\ phase \in {"ready", "returned"}
    /\ runs < MaxRuns
    /\ nodes_explored' = solve_reset.nodes_explored
    /\ backtrack_count' = solve_reset.backtrack_count
    /\ explanations' =
          _add_explanation(_add_explanation(_add_explanation(
          _add_explanation(_add_explanation(solve_reset.explanations,
             Entry("Starting solver", -1, -1, board.board_size, "", <<>>)),
             Entry("MRV heuristic", -1, -1, -1,
                   IF use_mrv THEN "ON" ELSE "OFF", <<>>)),
             Entry("Forward checking", -1, -1, -1,
                   IF use_forward_checking THEN "ON" ELSE "OFF", <<>>)),
             Entry("Prolog validation", -1, -1, -1,
                   IF use_prolog THEN "ON" ELSE "OFF", <<>>)),
             Msg(""))
    /\ LET cp == copy(Collect(heap, {board}), board, board.board_size)
       IN /\ heap' = cp.heap
          /\ working_board' = cp.obj
    /\ stack' = <<NewFrame>>
    /\ ret' = "none"
    /\ result' = NoResult
    /\ input0' = GridOf(heap, board)
    /\ calls' = 1
    /\ undone' = 0
    /\ cb_count' = 0
    /\ cb_last' = NoCallback
    /\ prev' = IF phase = "returned" THEN Summary ELSE prev
    /\ runs' = runs + 1
    /\ phase' = "solving"
    /\ UNCHANGED <<generator, puzzle, raised, ops,
                   board, use_mrv, use_forward_checking, use_prolog,
                   generate_explanations, step_callback, solve_time>>

----------------------------------------------------------------------------
(* SudokuSolver._backtrack, one action per step of the innermost call *)

Running == phase = "solving" /\ stack # <<>>

\* _backtrack that invokes the step observer at the root node only
NodeEnter_observer_at_root ==
    /\ Running
    /\ Top.pc = "enter"
    /\ nodes_explored' = nodes_explored + 1
    /\ IF step_callback /\ Len(stack) = 1
       THEN /\ cb_count' = cb_count + 1
            /\ cb_last' = [grid |-> GridOf(heap, working_board),
                           entry |-> IF explanations # <<>>
                                     THEN explanations[Len(explanations)]
                                     ELSE Msg("")]
       ELSE UNCHANGED <<cb_count, cb_last>>
    /\ stack' = SetTop([Top EXCEPT !.pc = "select"])
    /\ UNCHANGED <<generator, puzzle, raised, ops,
                   heap, board, phase, use_mrv, use_forward_checking,
                   use_prolog, generate_explanations, step_callback,
                   backtrack_count, solve_time, explanations, working_board,
                   ret, result, input0, calls, undone, prev, runs>>

\* lines 117-123: count the node and invoke the step observer
NodeEnter ==
    /\ Running
    /\ Top.pc = "enter"
    /\ nodes_explored' = nodes_explored + 1
    /\ IF step_callback
       THEN /\ cb_count' = cb_count + 1
            /\ cb_last' = [grid |-> GridOf(heap, working_board),
                           entry |-> IF explanations # <<>>
                                     THEN explanations[Len(explanations)]
                                     ELSE Msg("")]
       ELSE UNCHANGED <<cb_count, cb_last>>
    /\ stack' = SetTop([Top EXCEPT !.pc = "select"])
    /\ UNCHANGED <<generator, puzzle, raised, ops,
                   heap, board, phase, use_mrv, use_forward_checking,
                   use_prolog, generate_explanations, step_callback,
                   backtrack_count, solve_time, explanations, working_board,
                   ret, result, input0, calls, undone, prev, runs>>

\* _prolog_validate_constraints: True without an available validator, else
\* whatever validate_board answers
_prolog_validate_constraints == IF use_prolog THEN BOOLEAN ELSE {TRUE}

\* lines 126-143: no empty cell is left
Complete ==
    /\ Running
    /\ Top.pc = "select"
    /\ \E sel \in {_select_unassigned_variable(heap, working_board,
                                               explanations)} :
          /\ sel.cell = NoCell
          /\ IF is_valid_solution(heap, working_board)
             THEN /\ \E prolog_valid \in _prolog_validate_constraints :
                        explanations' = _add_explanation(sel.expl,
                           IF use_prolog /\ prolog_valid
                           THEN Msg("All cells filled - solution validated by Prolog!")
                           ELSE Msg("All cells filled - solution is valid!"))
                  /\ ret' = "True"
             ELSE /\ explanations' = sel.expl
                  /\ ret' = "False"
    /\ stack' = Pop
    /\ UNCHANGED <<generator, puzzle, raised, ops,
                   heap, board, phase, use_mrv, use_forward_checking,
                   use_prolog, generate_explanations, step_callback,
                   nodes_explored, backtrack_count, solve_time,
                   working_board, result, input0, calls, undone, cb_count,
                   cb_last, prev, runs>>

\* the dead-end return that also counts a backtrack
DeadEnd_counted ==
    /\ Running
    /\ Top.pc = "select"
    /\ \E sel \in {_select_unassigned_variable(heap, working_board,
                                               explanations)} :
          /\ sel.cell # NoCell
          /\ \E answer \in _prolog_get_candidates(
                    SetIterOrder(get_candidates(heap, working_board,
                                     sel.cell[1], sel.cell[2])), sel.expl) :
                LET gc == _get_candidates_with_explanation(heap,
                              working_board, sel.cell[1], sel.cell[2],
                              sel.expl, answer)
                IN /\ Len(gc.candidates) = 0
                   /\ explanations' = _add_explanation(gc.expl,
                         Entry("has no valid candidates - backtracking",
                               sel.cell[1], sel.cell[2], -1, "", <<>>))
    /\ backtrack_count' = backtrack_count + 1
    /\ ret' = "False"
    /\ stack' = Pop
    /\ UNCHANGED <<generator, puzzle, raised, ops,
                   heap, board, phase, use_mrv, use_forward_checking,
                   use_prolog, generate_explanations, step_callback,
                   nodes_explored, solve_time,
                   working_board, result, input0, calls, undone, cb_count,
                   cb_last, prev, runs>>

\* lines 126-154: the selected cell has no candidate
DeadEnd ==
    /\ Running
    /\ Top.pc = "select"
    /\ \E sel \in {_select_unassigned_variable(heap, working_board,
                                               explanations)} :
          /\ sel.cell # NoCell
          /\ \E answer \in _prolog_get_candidates(
                    SetIterOrder(get_candidates(heap, working_board,
                                     sel.cell[1], sel.cell[2])), sel.expl) :
                LET gc == _get_candidates_with_explanation(heap,
                              working_board, sel.cell[1], sel.cell[2],
                              sel.expl, answer)
                IN /\ Len(gc.candidates) = 0
                   /\ explanations' = _add_explanation(gc.expl,
                         Entry("has no valid candidates - backtracking",
                               sel.cell[1], sel.cell[2], -1, "", <<>>))
    /\ ret' = "False"
    /\ stack' = Pop
    /\ UNCHANGED <<generator, puzzle, raised, ops,
                   heap, board, phase, use_mrv, use_forward_checking,
                   use_prolog, generate_explanations, step_callback,
                   nodes_explored, backtrack_count, solve_time,
                   working_board, result, input0, calls, undone, cb_count,
                   cb_last, prev, runs>>

\* lines 126-157: a cell with candidates is selected; the loop starts
Select ==
    /\ Running
    /\ Top.pc = "select"
    /\ \E sel \in {_select_unassigned_variable(heap, working_board,
                                               explanations)} :
          /\ sel.cell # NoCell
          /\ \E answer \in _prolog_get_candidates(
                    SetIterOrder(get_candidates(heap, working_board,
                                     sel.cell[1], sel.cell[2])), sel.expl) :
                LET gc == _get_candidates_with_explanation(heap,
                              working_board, sel.cell[1], sel.cell[2],
                              sel.expl, answer)
                IN /\ Len(gc.candidates) # 0
                   /\ explanations' = gc.expl
                   /\ stack' = SetTop(Frame("loop", sel.cell[1],
                                            sel.cell[2], gc.candidates, 1))
    /\ UNCHANGED <<generator, puzzle, raised, ops,
                   heap, board, phase, use_mrv, use_forward_checking,
                   use_prolog, generate_explanations, step_callback,
                   nodes_explored, backtrack_count, solve_time,
                   working_board, ret, result, input0, calls, undone,
                   cb_count, cb_last, prev, runs>>

\* the trial that leaves the selected cell empty
Try_no_place ==
    /\ Running
    /\ Top.pc = "loop"
    /\ Top.idx <= Len(Top.candidates)
    /\ LET num == Top.candidates[Top.idx]
       IN explanations' = _add_explanation(explanations,
             Entry("-> Trying", Top.row, Top.col, -1,
                   _format_value(num, working_board.n), <<>>))
    /\ stack' = SetTop([Top EXCEPT !.pc = "placed"])
    /\ UNCHANGED <<generator, puzzle, raised, ops, heap,
                   board, phase, use_mrv, use_forward_checking, use_prolog,
                   generate_explanations, step_callback, nodes_explored,
                   backtrack_count, solve_time, working_board, ret, result,
                   input0, calls, undone, cb_count, cb_last, prev, runs>>

\* lines 157-164: the next candidate is placed
Try ==
    /\ Running
    /\ Top.pc = "loop"
    /\ Top.idx <= Len(Top.candidates)
    /\ LET num == Top.candidates[Top.idx]
       IN /\ explanations' = _add_explanation(explanations,
                Entry("-> Trying", Top.row, Top.col, -1,
                      _format_value(num, working_board.n), <<>>))
          /\ heap' = set(heap, working_board, Top.row, Top.col, num)
    /\ stack' = SetTop([Top EXCEPT !.pc = "placed"])
    /\ UNCHANGED <<generator, puzzle, raised, ops,
                   board, phase, use_mrv, use_forward_checking, use_prolog,
                   generate_explanations, step_callback, nodes_explored,
                   backtrack_count, solve_time, working_board, ret, result,
                   input0, calls, undone, cb_count, cb_last, prev, runs>>

\* the forward-checking undo without the count of the backtrack
ForwardCheckFail_uncounted ==
    /\ Running
    /\ Top.pc = "placed"
    /\ use_forward_checking /\ ~_is_consistent(heap, working_board)
    /\ explanations' = _add_explanation(explanations,
          Msg("  [X] Forward checking failed - creates dead end"))
    /\ heap' = set(heap, working_board, Top.row, Top.col, 0)
    /\ undone' = undone + 1
    /\ stack' = SetTop([Top EXCEPT !.pc = "loop", !.idx = @ + 1])
    /\ UNCHANGED <<generator, puzzle, raised, ops,
                   board, phase, use_mrv, use_forward_checking, use_prolog,
                   generate_explanations, step_callback, nodes_explored,
                   backtrack_count, solve_time, working_board, ret, result,
                   input0, calls, cb_count, cb_last, prev, runs>>

\* lines 167-173: forward checking rejects the placement
ForwardCheckFail ==
    /\ Running
    /\ Top.pc = "placed"
    /\ use_forward_checking /\ ~_is_consistent(heap, working_board)
    /\ explanations' = _add_explanation(explanations,
          Msg("  [X] Forward checking failed - creates dead end"))
    /\ heap' = set(heap, working_board, Top.row, Top.col, 0)
    /\ backtrack_count' = backtrack_count + 1
    /\ undone' = undone + 1
    /\ stack' = SetTop([Top EXCEPT !.pc = "loop", !.idx = @ + 1])
    /\ UNCHANGED <<generator, puzzle, raised, ops,
                   board, phase, use_mrv, use_forward_checking, use_prolog,
                   generate_explanations, step_callback, nodes_explored,
                   solve_time, working_board, ret, result, input0, calls,
                   cb_count, cb_last, prev, runs>>

\* lines 167-178: the placement stands and _backtrack is called
Recurse ==
    /\ Running
    /\ Top.pc = "placed"
    /\ ~(use_forward_checking /\ ~_is_consistent(heap, working_board))
    /\ explanations' = _add_explanation(explanations,
          Msg("  Move valid - continuing search"))
    /\ stack' = Append(SetTop([Top EXCEPT !.pc = "called"]), NewFrame)
    /\ calls' = calls + 1
    /\ ret' = "none"
    /\ UNCHANGED <<generator, puzzle, raised, ops,
                   heap, board, phase, use_mrv, use_forward_checking,
                   use_prolog, generate_explanations, step_callback,
                   nodes_explored, backtrack_count, solve_time,
                   working_board, result, input0, undone, cb_count, cb_last,
                   prev, runs>>

\* lines 178-179: the recursive call succeeded
ReturnTrue ==
    /\ Running
    /\ Top.pc = "called"
    /\ ret = "True"
    /\ stack' = Pop
    /\ UNCHANGED <<generator, puzzle, raised, ops,
                   heap, board, phase, use_mrv, use_forward_checking,
                   use_prolog, generate_explanations, step_callback,
                   nodes_explored, backtrack_count, solve_time, explanations,
                   working_board, ret, result, input0, calls, undone,
                   cb_count, cb_last, prev, runs>>

\* the undo after a failed recursive call that leaves the trial value in the
\* cell
Backtrack_no_undo ==
    /\ Running
    /\ Top.pc = "called"
    /\ ret = "False"
    /\ explanations' = _add_explanation(explanations,
          Entry("  <- Backtracking from", Top.row, Top.col, -1, "", <<>>))
    /\ backtrack_count' = backtrack_count + 1
    /\ undone' = undone + 1
    /\ stack' = SetTop([Top EXCEPT !.pc = "loop", !.idx = @ + 1])
    /\ ret' = "none"
    /\ UNCHANGED <<generator, puzzle, raised, ops, heap,
                   board, phase, use_mrv, use_forward_checking, use_prolog,
                   generate_explanations, step_callback, nodes_explored,
                   solve_time, working_board, result, input0, calls,
                   cb_count, cb_last, prev, runs>>

\* lines 178-184: the recursive call failed; the placement is undone
Backtrack ==
    /\ Running
    /\ Top.pc = "called"
    /\ ret = "False"
    /\ explanations' = _add_explanation(explanations,
          Entry("  <- Backtracking from", Top.row, Top.col, -1, "", <<>>))
    /\ heap' = set(heap, working_board, Top.row, Top.col, 0)
    /\ backtrack_count' = backtrack_count + 1
    /\ undone' = undone + 1
    /\ stack' = SetTop([Top EXCEPT !.pc = "loop", !.idx = @ + 1])
    /\ ret' = "none"
    /\ UNCHANGED <<generator, puzzle, raised, ops,
                   board, phase, use_mrv, use_forward_checking, use_prolog,
                   generate_explanations, step_callback, nodes_explored,
                   solve_time, working_board, result, input0, calls,
                   cb_count, cb_last, prev, runs>>

\* line 186: every candidate was tried
Exhausted ==
    /\ Running
    /\ Top.pc = "loop"
    /\ Top.idx > Len(Top.candidates)
    /\ ret' = "False"
    /\ stack' = Pop
    /\ UNCHANGED <<generator, puzzle, raised, ops,
                   heap, board, phase, use_mrv, use_forward_checking,
                   use_prolog, generate_explanations, step_callback,
                   nodes_explored, backtrack_count, solve_time, explanations,
                   working_board, result, input0, calls, undone, cb_count,
                   cb_last, prev, runs>>

\* solve that returns the working board also on failure
solve_result_keeps_board(success, wb) ==
    [returned |-> TRUE, success |-> success, board |-> wb]

\* solve, lines 98-105: the tuple returned for the outcome of _backtrack
solve_result(success, wb) ==
    IF success THEN [returned |-> TRUE, success |-> TRUE, board |-> wb]
    ELSE [returned |-> TRUE, success |-> FALSE, board |-> NoBoard]

\* SudokuSolver.solve, lines 96-105: after _backtrack has returned
SolveReturn ==
    /\ phase = "solving"
    /\ stack = <<>>
    /\ \E t \in 0 .. MaxTime :
          /\ solve_time' = t
          /\ explanations' = _add_explanation(explanations,
                IF ret = "True"
                THEN Entry("Solution found", -1, -1, t, "", <<>>)
                ELSE Entry("No solution exists", -1, -1, nodes_explored,
                           "", <<>>))
    /\ result' = solve_result(ret = "True", working_board)
    /\ heap' = Collect(heap, {board, result'.board})
    /\ working_board' = NoBoard
    /\ phase' = "returned"
    /\ UNCHANGED <<generator, puzzle, raised, ops,
                   board, use_mrv, use_forward_checking, use_prolog,
                   generate_explanations, step_callback, nodes_explored,
                   backtrack_count, stack, ret, input0, calls, undone,
                   cb_count, cb_last, prev, runs>>

\* the caller writes a cell of its own board after solve has returned
CallerSet(row, col, value) ==
    /\ phase = "returned"
    /\ get(heap, board, row, col) # value
    /\ heap' = set(heap, board, row, col, value)
    /\ phase' = "caller_mutated"
    /\ UNCHANGED <<generator, puzzle, raised, ops,
                   board, use_mrv, use_forward_checking, use_prolog,
                   generate_explanations, step_callback, nodes_explored,
                   backtrack_count, solve_time, explanations, working_board,
                   stack, ret, result, input0, calls, undone, cb_count,
                   cb_last, prev, runs>>

\* the caller writes a cell of the board solve has returned
SolutionSet(row, col, value) ==
    /\ phase = "returned"
    /\ result.success
    /\ get(heap, result.board, row, col) # value
    /\ heap' = set(heap, result.board, row, col, value)
    /\ phase' = "solution_mutated"
    /\ UNCHANGED <<generator, puzzle, raised, ops,
                   board, use_mrv, use_forward_checking, use_prolog,
                   generate_explanations, step_callback, nodes_explored,
                   backtrack_count, solve_time, explanations, working_board,
                   stack, ret, result, input0, calls, undone, cb_count,
                   cb_last, prev, runs>>

Next ==
    \/ \E mrv \in BOOLEAN, fc \in BOOLEAN, prolog \in BOOLEAN :
          Construct(mrv, fc, prolog, TRUE, TRUE)
    \/ Solve
    \/ NodeEnter
    \/ Complete
    \/ DeadEnd
    \/ Select
    \/ Try
    \/ ForwardCheckFail
    \/ Recurse
    \/ ReturnTrue
    \/ Backtrack
    \/ Exhausted
    \/ SolveReturn

Spec == Init /\ [][Next]_vars

\* inputs of the behaviours in which the caller goes on to write the boards
InputsMutate ==
    {[n |-> 2, rows |-> Puzzle4], [n |-> 2, rows |-> Unsat4]}
    \cup {[n |-> 2, rows |-> Carve(Base4, 4, p, {}, NoPoke)] : p \in 0 .. 16}

InitMutate == InitWith(InputsMutate)

NextMutate ==
    \/ Next
    \/ \E row \in Idx(board), col \in Idx(board), value \in 0 .. board.board_size :
          CallerSet(row, col, value)
    \/ \E row \in Idx(board), col \in Idx(board), value \in 0 .. board.board_size :
          SolutionSet(row, col, value)

SpecMutate == InitMutate /\ [][NextMutate]_vars

\* one step of the search or of the end of solve
SearchStep ==
    \/ NodeEnter
    \/ Complete
    \/ DeadEnd
    \/ Select
    \/ Try
    \/ ForwardCheckFail
    \/ Recurse
    \/ ReturnTrue
    \/ Backtrack
    \/ Exhausted
    \/ SolveReturn

\* a few 4x4 boards (solvable, unsatisfiable, with a duplicate clue, with
\* empty cells without candidates after the first empty cell) and one 9x9
\* board
InputsSmall ==
    {[n |-> 2, rows |-> Puzzle4], [n |-> 2, rows |-> Unsat4],
     [n |-> 2, rows |-> Carve(Base4, 4, 4, {}, <<10, 1>>)],
     [n |-> 2, rows |-> Carve(Base4, 4, 1, {9, 15}, <<11, 1>>)],
     [n |-> 3, rows |-> Carve(Base9, 9, 0, {40}, NoPoke)]}
    \cup {[n |-> 2, rows |-> Carve(Base4, 4, p, {}, NoPoke)] :
             p \in {0, 3, 6, 10}}

InitReuse == InitWith(InputsSmall)

\* one SudokuSolver instance is constructed and solve is called on it
\* repeatedly
NextReuse ==
    \/ \E mrv \in BOOLEAN, fc \in BOOLEAN, prolog \in BOOLEAN :
          phase = "init" /\ Construct(mrv, fc, prolog, TRUE, TRUE)
    \/ Solve
    \/ SearchStep

SpecReuse == InitReuse /\ [][NextReuse]_vars

\* SpecReuse where a solve that was called runs on: the interpreter executes
\* solve and the calls of _backtrack to their end, one step after the other
SpecTerminate == InitReuse /\ [][NextReuse]_vars /\ WF_vars(SearchStep)

InitExplain == InitWith(InputsSmall)

\* solvers are constructed with and without the trace and with and without a
\* step observer; a solver constructed after a solve keeps the heuristics
\* and the observer of the one before
NextExplain ==
    \/ \E mrv \in BOOLEAN, fc \in BOOLEAN, prolog \in BOOLEAN,
          callback \in BOOLEAN, explain \in BOOLEAN :
          /\ \/ phase = "init"
             \/ /\ mrv = use_mrv
                /\ fc = use_forward_checking
                /\ callback = step_callback
          /\ Construct(mrv, fc, prolog, callback, explain)
    \/ Solve
    \/ SearchStep

SpecExplain == InitExplain /\ [][NextExplain]_vars

\* boards solved with and without an external validator
InputsValidator ==
    {[n |-> 2, rows |-> Unsat4],
     [n |-> 2, rows |-> Carve(Base4, 4, 3, {}, NoPoke)],
     [n |-> 2, rows |-> Carve(Base4, 4, 6, {}, NoPoke)]}

InitValidator == InitWith(InputsValidator)

\* Solvers are constructed with every outcome of the validator's
\* initialisation and each is asked to solve once.  A solver constructed
\* after a solve keeps the heuristics and the trace flag of the one before,
\* and has a validator only if the one before had none.
NextValidator ==
    \/ \E mrv \in BOOLEAN, fc \in BOOLEAN, prolog \in BOOLEAN,
          explain \in BOOLEAN, validator \in Validators :
          /\ IF phase = "init" THEN TRUE
             ELSE /\ mrv = use_mrv
                  /\ fc = use_forward_checking
                  /\ explain = generate_explanations
                  /\ use_prolog => ~(prolog /\ validator = "available")
          /\ ConstructWith(mrv, fc, prolog, FALSE, explain, validator)
    \/ phase = "ready" /\ Solve
    \/ SearchStep

SpecValidator == InitValidator /\ [][NextValidator]_vars

----------------------------------------------------------------------------
(* A caller that builds a board: SudokuBoard(n), then from_list, from_string,
   set and to_string in any order *)

\* Base4 with every 4 replaced by 5
OutOfRange4 ==
    << <<1, 2, 3, 5>>, <<3, 5, 1, 2>>, <<2, 1, 5, 3>>, <<5, 3, 2, 1>> >>

\* grids given to from_list: well-sized ones for n = 2 and n = 3 (solved,
\* partial, with a duplicate, with a value above the side) and ill-sized ones
ListInputs ==
    {Base4, Puzzle4, Unsat4, OutOfRange4,
     Carve(Base4, 4, 0, {}, <<10, 1>>),
     SubSeq(Base4, 1, 3),
     [Base4 EXCEPT ![2] = Append(@, 0)],
     Base9,
     Carve(Base9, 9, 0, {}, <<1, 5>>)}

\* "1.3...1...4.4.2.", the puzzle of test_cases.test_4x4
Str4 == <<49, 46, 51, 46, 46, 46, 49, 46, 46, 46, 52, 46, 52, 46, 50, 46>>

\* strings given to from_string: the test puzzle; the same with a blank and a
\* newline; with "?", "5" or "a" as a character; one character short
StringInputs ==
    {Str4,
     SubSeq(Str4, 1, 4) \o <<32>> \o SubSeq(Str4, 5, 8) \o <<10>>
         \o SubSeq(Str4, 9, 16),
     [Str4 EXCEPT ![2] = 63],
     [Str4 EXCEPT ![6] = 53],
     [Str4 EXCEPT ![16] = 97],
     SubSeq(Str4, 1, 15)}

\* the cells the caller writes with set, and the values it writes
SetCells(b) ==
    IF b.board_size > 9 THEN {<<0, 0>>, <<1, 1>>}
    ELSE {<<0, 0>>, <<0, 1>>, <<0, b.board_size - 1>>, <<1, 1>>,
          <<b.board_size - 1, 0>>, <<b.n, b.n>>}

SetValues(b) ==
    {0, 1, 2, b.board_size - 1, b.board_size, b.board_size + 1}
    \cup ({9, 10, 35} \cap (0 .. b.board_size))

\* board = SudokuBoard(n) for some n of sizes
InitBoardWith(sizes) ==
    /\ \E n \in sizes :
          /\ board = NewBoard(n, 0)
          /\ heap = [id \in 1 .. (n * n) |-> [c \in 0 .. (n * n - 1) |-> 0]]
    /\ phase = "board"
    /\ generator = NoGenerator
    /\ InitSolver

\* board.from_list(rows)
BoardFromList(rows) ==
    /\ phase = "board"
    /\ ops < MaxOps
    /\ ops' = ops + 1
    /\ IF from_list_raises(board.n, rows)
       THEN /\ raised' = "ValueError"
            /\ UNCHANGED <<heap, board>>
       ELSE LET fl == from_list(board.n, rows, 0)
            IN /\ raised' = "none"
               /\ heap' = fl.heap
               /\ board' = fl.obj
    /\ UNCHANGED <<generator, puzzle, phase, use_mrv, use_forward_checking, use_prolog,
                   generate_explanations, step_callback, nodes_explored,
                   backtrack_count, solve_time, explanations, working_board,
                   stack, ret, result, input0, calls, undone, cb_count,
                   cb_last, prev, runs>>

\* board.from_string(s)
BoardFromString(s) ==
    /\ phase = "board"
    /\ ops < MaxOps
    /\ ops' = ops + 1
    /\ LET fs == from_string(heap, board, s)
       IN /\ heap' = fs.heap
          /\ raised' = fs.raised
    /\ UNCHANGED <<generator, puzzle, board, phase, use_mrv, use_forward_checking,
                   use_prolog, generate_explanations, step_callback,
                   nodes_explored, backtrack_count, solve_time, explanations,
                   working_board, stack, ret, result, input0, calls, undone,
                   cb_count, cb_last, prev, runs>>

\* board.set(row, col, value)
BoardSet(row, col, value) ==
    /\ phase = "board"
    /\ ops < MaxOps
    /\ ops' = ops + 1
    /\ heap' = set(heap, board, row, col, value)
    /\ UNCHANGED <<generator, puzzle, raised, board, phase, use_mrv,
                   use_forward_checking, use_prolog, generate_explanations,
                   step_callback, nodes_explored, backtrack_count,
                   solve_time, explanations, working_board, stack, ret,
                   result, input0, calls, undone, cb_count, cb_last, prev,
                   runs>>

\* puzzle = board.to_string()
BoardToString ==
    /\ phase = "board"
    /\ ops < MaxOps
    /\ ops' = ops + 1
    /\ puzzle' = to_string(heap, board)
    /\ UNCHANGED <<generator, raised, heap, board, phase, use_mrv,
                   use_forward_checking, use_prolog, generate_explanations,
                   step_callback, nodes_explored, backtrack_count,
                   solve_time, explanations, working_board, stack, ret,
                   result, input0, calls, undone, cb_count, cb_last, prev,
                   runs>>

NextBoard ==
    \/ \E rows \in ListInputs : BoardFromList(rows)
    \/ \E s \in StringInputs \cup {puzzle} : BoardFromString(s)
    \/ \E x \in SetCells(board), value \in SetValues(board) :
          BoardSet(x[1], x[2], value)
    \/ BoardToString

\* boards of box size 2 and 3
InitBoard == InitBoardWith({2, 3})

SpecBoard == InitBoard /\ [][NextBoard]_vars

\* boards of box size 2, 3 and 6: a value of a 36x36 board goes up to 36
InitString == InitBoardWith({2, 3, 6})

SpecString == InitString /\ [][NextBoard]_vars

----------------------------------------------------------------------------
(* generator.py *)

\* _generate_solution, line 51
max_attempts == 10

\* the outcomes of random.shuffle on list(range(1, side + 1)), as sequences
\* indexed from 0: all of them for side 4, the ascending and the descending
\* list for larger sides
Shuffles(side) ==
    IF side = 4
    THEN {f \in [0 .. (side - 1) -> 1 .. side] :
            \A i, j \in 0 .. (side - 1) : i # j => f[i] # f[j]}
    ELSE {[i \in 0 .. (side - 1) |-> i + 1],
          [i \in 0 .. (side - 1) |-> side - i]}

\* _fill_diagonal_boxes that starts every row of a box at values[0]
_fill_diagonal_boxes_idx_per_row(h, b, values) ==
    [id \in DOMAIN h |->
        IF \E r \in Idx(b) : b.board[r] = id
        THEN LET r == CHOOSE rr \in Idx(b) : b.board[rr] = id
             IN [c \in Idx(b) |->
                   IF r \div b.n = c \div b.n
                   THEN values[r \div b.n][c % b.n]
                   ELSE h[id][c]]
        ELSE h[id]]

\* _fill_diagonal_boxes on the board b, values[box_idx] the shuffled list of
\* diagonal box box_idx: the box is written row by row
_fill_diagonal_boxes(h, b, values) ==
    [id \in DOMAIN h |->
        IF \E r \in Idx(b) : b.board[r] = id
        THEN LET r == CHOOSE rr \in Idx(b) : b.board[rr] = id
             IN [c \in Idx(b) |->
                   IF r \div b.n = c \div b.n
                   THEN values[r \div b.n][(r % b.n) * b.n + (c % b.n)]
                   ELSE h[id][c]]
        ELSE h[id]]

\* _remove_cells, lines 114-139: the values of cells_to_keep that
\* int(total_cells * random.uniform(lo, hi)) and the minimum can give
cells_to_keep(side, difficulty) ==
    LET total_cells == side * side
        lo == IF side = 16
              THEN (IF difficulty = "easy" THEN 60
                    ELSE IF difficulty = "hard" THEN 45 ELSE 50)
              ELSE (IF difficulty = "easy" THEN 50
                    ELSE IF difficulty = "hard" THEN 25 ELSE 35)
        hi == lo + 10
        floor == IF side = 4 THEN 6 ELSE IF side = 9 THEN 17 ELSE 0
    IN {IF k < floor THEN floor ELSE k :
          k \in ((total_cells * lo) \div 100) .. ((total_cells * hi) \div 100)}

\* the outcomes of random.shuffle(all_positions) the model follows: the
\* row-major list itself, its reverse, the column-major list and the list
\* that starts with the cells off the diagonal boxes
Positions(b) ==
    LET side == b.board_size
        rowMajor == [k \in 1 .. (side * side) |->
                        <<(k - 1) \div side, (k - 1) % side>>]
        diagonalRank(x) == IF x[1] \div b.n = x[2] \div b.n THEN 1 ELSE 0
    IN {rowMajor,
        [k \in 1 .. (side * side) |-> rowMajor[side * side + 1 - k]],
        [k \in 1 .. (side * side) |-> <<rowMajor[k][2], rowMajor[k][1]>>],
        SortSeq(rowMajor, LAMBDA x, y : diagonalRank(x) < diagonalRank(y))}

\* _remove_cells, lines 147-166: the first cells_to_remove positions of
\* all_positions are set to 0 on the board p
RemoveFirst(h, p, all_positions, cells_to_remove) ==
    [id \in DOMAIN h |->
        IF \E r \in Idx(p) : p.board[r] = id
        THEN LET r == CHOOSE rr \in Idx(p) : p.board[rr] = id
             IN [c \in Idx(p) |->
                   IF \E k \in 1 .. cells_to_remove :
                         all_positions[k] = <<r, c>>
                   THEN 0 ELSE h[id][c]]
        ELSE h[id]]

\* generator = SudokuGenerator(n); generator.generate(difficulty) is called
InitGenerator ==
    /\ \E n \in {2, 3} : generator = [NoGenerator EXCEPT !.n = n]
    /\ board = NoBoard
    /\ heap = <<>>
    /\ phase = "generate"
    /\ InitSolver

\* _generate_solution, lines 53-65: one pass of the loop up to the call of
\* solve, on a new board and with a new solver
Attempt ==
    /\ phase = "generate"
    /\ generator.attempt < max_attempts
    /\ \E values \in [0 .. (generator.n - 1) ->
                           Shuffles(generator.n * generator.n)] :
          LET nb == NewBoard(generator.n, 0)
          IN /\ board' = nb
             /\ heap' = _fill_diagonal_boxes(
                           [id \in {nb.board[r] : r \in Idx(nb)} |->
                               [c \in Idx(nb) |-> 0]], nb, values)
    /\ use_mrv' = TRUE
    /\ use_forward_checking' = TRUE
    /\ use_prolog' = FALSE
    /\ generate_explanations' = FALSE
    /\ step_callback' = FALSE
    /\ nodes_explored' = 0
    /\ backtrack_count' = 0
    /\ solve_time' = 0
    /\ explanations' = <<>>
    /\ runs' = 0
    /\ phase' = "ready"
    /\ UNCHANGED <<generator, puzzle, raised, ops, working_board, stack, ret,
                   result, input0, calls, undone, cb_count, cb_last, prev>>

\* _generate_solution, lines 67-73, and generate, lines 38-41: after solve
\* has returned.  On success the solution is returned to generate, which
\* removes cells from a copy of it and returns the copy; the loop counter
\* and the solver are local to _generate_solution and are gone by then.  On
\* failure the loop goes on, and raises once max_attempts passes have
\* failed; the board and the solver of a failed pass are dropped.
AttemptReturn ==
    /\ phase = "returned"
    /\ generator.puzzle = NoBoard
    /\ IF result.success
       THEN \E difficulty \in {"easy", "medium", "hard"} :
               \E keep \in cells_to_keep(board.board_size, difficulty) :
                  \E all_positions \in Positions(board) :
                     LET cp == copy(heap, result.board, 2 * board.board_size)
                     IN /\ heap' = RemoveFirst(cp.heap, cp.obj, all_positions,
                              board.board_size * board.board_size - keep)
                        /\ generator' = [n |-> generator.n, attempt |-> 0,
                                         difficulty |-> difficulty,
                                         puzzle |-> cp.obj]
                        /\ phase' = "generated"
                        /\ UNCHANGED <<board, result, input0, raised>>
       ELSE /\ generator' = [generator EXCEPT !.attempt = @ + 1]
            /\ phase' = IF generator.attempt + 1 < max_attempts
                        THEN "generate" ELSE "failed"
            /\ raised' = IF generator.attempt + 1 < max_attempts
                         THEN raised ELSE "Exception"
            /\ board' = NoBoard
            /\ heap' = <<>>
            /\ result' = NoResult
            /\ input0' = <<>>
    /\ nodes_explored' = 0
    /\ backtrack_count' = 0
    /\ solve_time' = 0
    /\ UNCHANGED <<puzzle, ops, use_mrv, use_forward_checking, use_prolog,
                   generate_explanations, step_callback, explanations,
                   working_board, stack, ret, calls, undone, cb_count,
                   cb_last, prev, runs>>

NextGenerator ==
    \/ Attempt
    \/ phase = "ready" /\ Solve
    \/ SearchStep
    \/ AttemptReturn

SpecGenerator == InitGenerator /\ [][NextGenerator]_vars

----------------------------------------------------------------------------
(* Properties *)

Cells(n) == (0 .. (n * n - 1)) \X (0 .. (n * n - 1))

\* the rows, the columns and the boxes of a board of box size n
Units(n) ==
    {{<<r, c>> : c \in 0 .. (n * n - 1)} : r \in 0 .. (n * n - 1)}
    \cup {{<<r, c>> : r \in 0 .. (n * n - 1)} : c \in 0 .. (n * n - 1)}
    \cup {{<<br * n + i, bc * n + j>> : i \in 0 .. (n - 1), j \in 0 .. (n - 1)} :
             br \in 0 .. (n - 1), bc \in 0 .. (n - 1)}

\* grid g is complete and every row, column and box holds each value once
SolvedGrid(g, n) ==
    \A u \in Units(n) : {g[x[1]][x[2]] : x \in u} = 1 .. (n * n)

\* no row, column or box of g holds a nonzero value twice
NoDuplicate(g, n) ==
    LET side == n * n
    IN \A r \in 0 .. (side - 1) :
         LET gr == g[r]
         IN \A c \in 0 .. (side - 1) :
              LET v == gr[c]
              IN \/ v = 0
                 \/ /\ \A k \in (c + 1) .. (side - 1) : gr[k] # v
                    /\ \A k \in (r + 1) .. (side - 1) : g[k][c] # v
                    /\ \A rr \in (r + 1) .. ((r \div n) * n + n - 1) :
                          \A cc \in ((c \div n) * n) ..
                                        ((c \div n) * n + n - 1) :
                             cc # c => g[rr][cc] # v

EmptyCells(g, n) == {x \in Cells(n) : g[x[1]][x[2]] = 0}

Perms4 == {f \in [0 .. 3 -> 1 .. 4] : \A i, j \in 0 .. 3 : i # j => f[i] # f[j]}

Bands4 == {p \in Perms4 \X Perms4 :
              /\ {p[1][0], p[1][1], p[2][0], p[2][1]} = 1 .. 4
              /\ {p[1][2], p[1][3], p[2][2], p[2][3]} = 1 .. 4}

\* all solved 4x4 grids
ValidGrids4 ==
    {[r \in 0 .. 3 |-> IF r < 2 THEN q[1][r + 1] ELSE q[2][r - 1]] :
        q \in {p \in Bands4 \X Bands4 :
                  \A c \in 0 .. 3 :
                     {p[1][1][c], p[1][2][c], p[2][1][c], p[2][2][c]} = 1 .. 4}}

Base9Grid == [r \in 0 .. 8 |-> [c \in 0 .. 8 |-> Base9[r + 1][c + 1]]]

\* the completions of grid g: all of them for n = 2, the known one for n = 3
Completions(g, n) ==
    {s \in (IF n = 2 THEN ValidGrids4 ELSE {Base9Grid}) :
        \A x \in Cells(n) : g[x[1]][x[2]] # 0 => s[x[1]][x[2]] = g[x[1]][x[2]]}

Returned == phase = "returned"

\* C1: whenever solve has returned success, the returned board satisfies
\* is_valid_solution(): it is complete and every row, column and box holds
\* each value once, under every combination of the MRV and forward-checking
\* flags.
C1_Soundness ==
    (Returned /\ result.success) =>
        /\ is_valid_solution(heap, result.board)
        /\ SolvedGrid(GridOf(heap, result.board), board.n)

C1_Witness ==
    /\ Returned /\ result.success
    /\ Cardinality(EmptyCells(input0, board.n)) >= 4
    /\ backtrack_count > 0

\* C2: solve works on a private deep copy: in every state during and after
\* solve every cell of the caller's board has the value it had before the
\* call; no step of solve changes the caller's board; a later write to the
\* caller's board leaves the returned board unchanged and a later write to
\* the returned board leaves the caller's board unchanged.
C2_PrivateCopy ==
    /\ [](phase \in {"solving", "returned"} => GridOf(heap, board) = input0)
    /\ [][/\ phase' # "caller_mutated" =>
                GridOf(heap', board') = GridOf(heap, board)
          /\ (phase' # "solution_mutated" /\ result.success /\ result' = result) =>
                GridOf(heap', result.board) = GridOf(heap, result.board)]_vars

C2_Witness ==
    /\ phase = "solution_mutated"
    /\ backtrack_count > 0

\* C3: for a 4x4 input with exactly one valid completion solve returns
\* success and exactly that completion, under each of the four combinations
\* of use_mrv and use_forward_checking.
C3_Completeness ==
    (Returned /\ board.n = 2 /\ Cardinality(Completions(input0, 2)) = 1) =>
        /\ result.success
        /\ GridOf(heap, result.board) \in Completions(input0, 2)

C3_Witness ==
    /\ Returned /\ board.n = 2 /\ Cardinality(Completions(input0, 2)) = 1
    /\ Cardinality(EmptyCells(input0, 2)) >= 6
    /\ use_mrv /\ use_forward_checking
    /\ prev.valid /\ ~prev.use_mrv /\ ~prev.use_forward_checking

\* C4: for an input without valid completion solve returns (False, None),
\* and nodes_explored is greater than 0 when it returns.
C4_Unsatisfiable ==
    (Returned /\ Completions(input0, board.n) = {} /\ board.n = 2) =>
        /\ ~result.success
        /\ result.board = NoBoard
        /\ nodes_explored > 0

C4_Witness ==
    /\ Returned /\ board.n = 2 /\ Completions(input0, 2) = {}
    /\ NoDuplicate(input0, 2)
    /\ nodes_explored > 5

\* C5: when solve is started on a board without duplicate nonzero value in
\* any row, column or box, the working board has none in any state of the
\* search, in particular right after each trial assignment and in every
\* board handed to the step observer.
C5_InvariantPreservation ==
    phase = "solving" =>
        \/ /\ NoDuplicate(GridOf(heap, working_board), board.n)
           /\ cb_count > 0 => NoDuplicate(cb_last.grid, board.n)
        \/ ~NoDuplicate(input0, board.n)

C5_Witness ==
    /\ phase = "solving" /\ NoDuplicate(input0, board.n)
    /\ Len(stack) >= 3 /\ Top.pc = "placed"
    /\ cb_count >= 3

\* C6: the success flag returned by solve on one input is the same under
\* all four combinations of use_mrv and use_forward_checking.
C6_HeuristicNeutral ==
    (Returned /\ prev.valid) => result.success = prev.success

C6_Witness ==
    /\ Returned /\ prev.valid /\ result.success
    /\ prev.use_mrv # use_mrv /\ prev.use_forward_checking # use_forward_checking
    /\ prev.nodes_explored # nodes_explored

Solvable == Completions(input0, board.n) # {}

\* C7 as claimed: on a solvable input, nodes_explored with MRV and forward
\* checking both enabled is at most nodes_explored with both disabled.
C7_Original ==
    (/\ Returned /\ prev.valid /\ Solvable
     /\ use_mrv /\ use_forward_checking
     /\ ~prev.use_mrv /\ ~prev.use_forward_checking) =>
        nodes_explored <= prev.nodes_explored

\* C7 as amended: on a solvable input and under either MRV setting,
\* nodes_explored with forward checking enabled is at most nodes_explored
\* with forward checking disabled.
C7_ForwardCheckingPrunes ==
    (/\ Returned /\ prev.valid /\ Solvable
     /\ use_forward_checking /\ ~prev.use_forward_checking
     /\ use_mrv = prev.use_mrv) =>
        nodes_explored <= prev.nodes_explored

C7_Witness ==
    /\ Returned /\ prev.valid /\ Solvable
    /\ use_forward_checking /\ ~prev.use_forward_checking
    /\ use_mrv /\ prev.use_mrv
    /\ nodes_explored < prev.nodes_explored

\* the input is a solved grid with exactly one cell emptied
OneCellEmptied ==
    Cardinality(EmptyCells(input0, board.n)) = 1 /\ Solvable

\* C8 as claimed: on a solved grid with one cell emptied, solve with MRV and
\* forward checking returns success with nodes_explored = 1 and
\* backtrack_count = 0.
C8_Original ==
    (Returned /\ OneCellEmptied /\ use_mrv /\ use_forward_checking) =>
        (result.success /\ nodes_explored = 1 /\ backtrack_count = 0)

\* C8 as amended: on a solved grid with one cell emptied, solve with MRV and
\* forward checking returns success with nodes_explored = 2 (the node that
\* fills the cell and the node that finds the board complete) and
\* backtrack_count = 0.
C8_OneCellTwoNodes ==
    (Returned /\ OneCellEmptied /\ use_mrv /\ use_forward_checking) =>
        (result.success /\ nodes_explored = 2 /\ backtrack_count = 0)

C8_Witness ==
    /\ Returned /\ OneCellEmptied /\ use_mrv /\ use_forward_checking
    /\ board.n = 3

Ascending(q) == \A i, j \in 1 .. Len(q) : i < j => q[i] < q[j]

ResetCells ==
    {x \in Cells(working_board.n) :
        /\ get(heap, working_board, x[1], x[2]) # 0
        /\ get(heap', working_board, x[1], x[2]) = 0}

\* C10: during one solve nodes_explored is incremented exactly once per
\* invocation of _backtrack and backtrack_count exactly once each time a
\* trial assignment is reset to empty, and at no other time; when solve
\* returns, nodes_explored is the number of invocations and backtrack_count
\* the number of undone trial assignments.
C10_Statistics ==
    /\ [](phase \in {"solving", "returned"} =>
            /\ backtrack_count = undone
            /\ nodes_explored =
                  calls - (IF stack # <<>> /\ Top.pc = "enter" THEN 1 ELSE 0))
    /\ [][/\ (phase = "solving" /\ phase' = "solving") =>
                /\ backtrack_count' =
                      backtrack_count + Cardinality(ResetCells)
                /\ nodes_explored' =
                      nodes_explored + (IF Top.pc = "enter" THEN 1 ELSE 0)
          /\ (phase = "solving" /\ phase' = "returned") =>
                /\ backtrack_count' = backtrack_count
                /\ nodes_explored' = nodes_explored]_vars

C10_Witness ==
    /\ Returned /\ use_forward_checking
    /\ undone >= 3 /\ calls >= 4
    /\ undone > calls

\* the innermost node is about to select a cell whose candidate set is empty
DeadEndNode ==
    /\ Running
    /\ Top.pc = "select"
    /\ \E sel \in {_select_unassigned_variable(heap, working_board,
                                               explanations)} :
          /\ sel.cell # NoCell
          /\ get_candidates(heap, working_board,
                            sel.cell[1], sel.cell[2]) = {}

\* C11 as stated: the failure of a node on the dead-end path increments
\* backtrack_count by exactly one.
C11_Original ==
    [][DeadEndNode => backtrack_count' = backtrack_count + 1]_vars

\* C11: a node that fails on the dead-end path returns failure and leaves
\* backtrack_count as it is; the failure is counted once, by the caller, in
\* the step that undoes the trial assignment which led to the node.
C11_DeadEndUncounted ==
    [][/\ DeadEndNode =>
            /\ backtrack_count' = backtrack_count
            /\ ret' = "False"
            /\ stack' = Pop
       /\ (Running /\ Top.pc = "called" /\ ret = "False") =>
            /\ backtrack_count' = backtrack_count + 1
            /\ get(heap', working_board, Top.row, Top.col) = 0]_vars

C11_Witness ==
    /\ phase = "solving" /\ stack # <<>>
    /\ Top.pc = "called" /\ ret = "False"
    /\ explanations # <<>>
    /\ explanations[Len(explanations)].kind =
          "has no valid candidates - backtracking"
    /\ backtrack_count > 0

\* number of entries of a trace that open a solve call
Openings(expl) ==
    Cardinality({i \in 1 .. Len(expl) : expl[i].kind = "Starting solver"})

\* C12: on an instance used for several solve calls, the trace and the two
\* counters hold what the most recent call produced alone: the trace starts
\* with that call's opening entry and holds no other, the counters equal the
\* call's own invocations and undone assignments, and a call on board B
\* after earlier calls ends with the success flag, board, counters and trace
\* (up to the elapsed time it measures) of the first call on B, made when the
\* instance was fresh.
C12_PerCallReset ==
    /\ phase \in {"solving", "returned"} =>
          /\ Openings(explanations) = 1
          /\ explanations[1].kind = "Starting solver"
          /\ nodes_explored <= calls
          /\ backtrack_count = undone
    /\ (Returned /\ runs > 1) =>
          /\ prev.valid
          /\ result.success = prev.success
          /\ result.success => GridOf(heap, result.board) = prev.grid
          /\ nodes_explored = prev.nodes_explored /\ nodes_explored = calls
          /\ backtrack_count = prev.backtrack_count
          /\ SansTime(explanations) = prev.explanations

C12_Witness ==
    /\ Returned /\ runs > 1
    /\ nodes_explored > 3 /\ backtrack_count > 0
    /\ Len(explanations) > 8

\* C13: with generate_explanations disabled the trace is empty in every
\* state from construction on, whatever the heuristics and whatever path
\* the search takes, and solve ends with the success flag, board,
\* nodes_explored and backtrack_count of the run with the trace enabled.
C13_ExplanationToggle ==
    /\ (phase # "init" /\ ~generate_explanations) => explanations = <<>>
    /\ (/\ Returned /\ prev.valid
        /\ prev.use_mrv = use_mrv
        /\ prev.use_forward_checking = use_forward_checking
        /\ generate_explanations # (prev.explanations # <<>>)) =>
           /\ result.success = prev.success
           /\ result.success => GridOf(heap, result.board) = prev.grid
           /\ nodes_explored = prev.nodes_explored
           /\ backtrack_count = prev.backtrack_count

C13_Witness ==
    /\ Returned /\ ~generate_explanations
    /\ prev.valid /\ prev.explanations # <<>>
    /\ use_mrv /\ use_forward_checking
    /\ ~result.success /\ backtrack_count > 2 /\ nodes_explored > 2

\* the cell the innermost node selects, NoCell when it selects none
SelectedCell ==
    IF Running /\ Top.pc = "select"
    THEN _select_unassigned_variable(heap, working_board, explanations).cell
    ELSE NoCell

\* positions after `from` of the entries of expl that give cell, the number
\* of its candidates and the candidates themselves
SelectionEntries(expl, from, cell, cands) ==
    {i \in (from + 1) .. Len(expl) :
        /\ expl[i].row = cell[1] /\ expl[i].col = cell[2]
        /\ expl[i].num = Cardinality(cands)
        /\ expl[i].cands = [k \in 1 .. Cardinality(cands) |->
                               _format_value(SetIterOrder(cands)[k],
                                             working_board.n)]}

\* C14: with explanations enabled every node that selects a cell appends
\* exactly one selection entry giving the cell, its candidate set and the
\* number of candidates, with MRV enabled or disabled.
C14_SelectionTrace ==
    [][(SelectedCell # NoCell /\ generate_explanations) =>
          Cardinality(SelectionEntries(explanations', Len(explanations),
             SelectedCell,
             get_candidates(heap, working_board,
                            SelectedCell[1], SelectedCell[2]))) = 1]_vars

\* the candidate set of cell (r, c) of grid g: nothing for a filled cell,
\* else the values of 1..n*n held by no cell of its row, column or box
CandidateSet(g, n, r, c) ==
    IF g[r][c] # 0 THEN {}
    ELSE {v \in 1 .. (n * n) :
            /\ \A k \in 0 .. (n * n - 1) : g[r][k] # v /\ g[k][c] # v
            /\ \A i \in 0 .. (n - 1), j \in 0 .. (n - 1) :
                  g[(r \div n) * n + i][(c \div n) * n + j] # v}

\* C15: get_candidates(row, col) is empty for a non-empty cell and otherwise
\* {1..side} minus the values of the cell's row, column and n-by-n box, for
\* every cell of every board the caller can build, boards with duplicates
\* and with values above the side included.
C15_Candidates ==
    phase = "board" =>
       \A r \in Idx(board), c \in Idx(board) :
          get_candidates(heap, board, r, c) =
             CandidateSet(GridOf(heap, board), board.n, r, c)

C15_Witness ==
    /\ phase = "board" /\ board.n = 2
    /\ get(heap, board, 0, 0) = 1 /\ get_candidates(heap, board, 0, 0) = {}
    /\ get(heap, board, 0, 1) = 5
    /\ get_candidates(heap, board, 0, 3) = {2, 4}

\* C16: is_valid_solution() is true if and only if every cell is nonzero and
\* every row, column and box holds each value of 1..side exactly once, for
\* every content a board can hold.
C16_ValidSolution ==
    phase = "board" =>
       (is_valid_solution(heap, board) <=>
           SolvedGrid(GridOf(heap, board), board.n))

\* rows is a side-by-side grid
WellSized(rows, side) ==
    /\ Len(rows) = side
    /\ \A r \in 1 .. Len(rows) : Len(rows[r]) = side

\* every value of rows lies in 0..side
InRange(rows, side) ==
    \A r \in 1 .. Len(rows) : \A c \in 1 .. Len(rows[r]) :
        rows[r][c] \in 0 .. side

\* C17: from_list raises ValueError whenever the grid is not side-by-side or
\* holds a value outside 0..side, so a grid it accepts leaves every cell of
\* the board in 0..side.
C17_FromListRejects ==
    [][\A rows \in ListInputs :
          BoardFromList(rows) =>
             /\ (~WellSized(rows, board.board_size)
                 \/ ~InRange(rows, board.board_size)) =>
                    raised' = "ValueError"
             /\ raised' = "none" =>
                   \A r \in Idx(board'), c \in Idx(board') :
                      get(heap', board', r, c) \in 0 .. board.board_size]_vars

\* SudokuBoard(b.n).from_string(s): the exception raised and the string of
\* the board loaded
Reload(b, s) ==
    LET nb == NewBoard(b.n, 0)
        fs == from_string([id \in {nb.board[r] : r \in Idx(nb)} |->
                              [c \in Idx(nb) |-> 0]], nb, s)
    IN [raised |-> fs.raised, string |-> to_string(fs.heap, nb)]

\* C18: for every board whose cells all lie in 0..side, of any box size,
\* from_string on a new board of the same box size accepts the board's
\* to_string() and yields a board with the same to_string().
C18_RoundTrip ==
    (/\ phase = "board"
     /\ \A r \in Idx(board), c \in Idx(board) :
           get(heap, board, r, c) \in 0 .. board.board_size) =>
       /\ Reload(board, to_string(heap, board)).raised = "none"
       /\ Reload(board, to_string(heap, board)).string =
             to_string(heap, board)

RECURSIVE Embeds(_, _, _, _)
\* a[i..] is a subsequence of b[j..]
Embeds(a, i, b, j) ==
    IF i > Len(a) THEN TRUE
    ELSE IF j > Len(b) THEN FALSE
    ELSE IF a[i] = b[j] THEN Embeds(a, i + 1, b, j + 1)
    ELSE Embeds(a, i, b, j + 1)

\* the trace without the ON/OFF text of its "Prolog validation" entry
SansFlag(expl) ==
    [i \in 1 .. Len(expl) |->
        IF expl[i].kind = "Prolog validation" THEN [expl[i] EXCEPT !.txt = ""]
        ELSE expl[i]]

\* the trace without the validator's warnings and with the success entry in
\* its wording without a validator
SansValidator(expl) ==
    LET kept == SelectSeq(SansFlag(expl), LAMBDA e :
                   e.kind # "  [WARN] Prolog found different candidates")
    IN [i \in 1 .. Len(kept) |->
           IF kept[i].kind = "All cells filled - solution validated by Prolog!"
           THEN Msg("All cells filled - solution is valid!")
           ELSE kept[i]]

\* solve returned the same success flag, board, nodes_explored and
\* backtrack_count as the solve before it
SameOutcome ==
    /\ result.success = prev.success
    /\ result.success => GridOf(heap, result.board) = prev.grid
    /\ nodes_explored = prev.nodes_explored
    /\ backtrack_count = prev.backtrack_count

\* C19 as stated: a solve with an available validator and a solve without
\* one, of the same board under the same flags, return the same success flag
\* and board with the same nodes_explored and backtrack_count, and the trace
\* of the solve with the validator is the trace of the other with entries
\* added.
C19_Original ==
    (Returned /\ prev.valid /\ use_prolog # prev.use_prolog) =>
       /\ SameOutcome
       /\ IF use_prolog
          THEN Embeds(SansFlag(prev.explanations), 1,
                      SansFlag(SansTime(explanations)), 1)
          ELSE Embeds(SansFlag(SansTime(explanations)), 1,
                      SansFlag(prev.explanations), 1)

\* C19, amended: whatever the validator answers (any candidate list or no
\* opinion, true or false for the solved board, available or not), solve
\* returns the same success flag and board with the same nodes_explored and
\* backtrack_count as without a validator; the answers show in the trace
\* only, as added warnings and as the wording of the success entry.
C19_Advisory ==
    (Returned /\ prev.valid) =>
       /\ SameOutcome
       /\ SansValidator(SansTime(explanations)) =
             SansValidator(prev.explanations)

\* a solve whose validator disagreed on a cell and approved the solution
\* returns after a solve of the same board without a validator
C19_Witness ==
    /\ Returned
    /\ prev.valid
    /\ ~prev.use_prolog
    /\ use_prolog
    /\ result.success
    /\ Warnings(explanations) > 0
    /\ \E i \in 1 .. Len(explanations) :
          explanations[i].kind =
             "All cells filled - solution validated by Prolog!"
\* the entry a step observer invoked now is given
MostRecentEntry ==
    IF explanations # <<>> THEN explanations[Len(explanations)] ELSE Msg("")

\* C20: a registered step observer is invoked exactly once per search node:
\* throughout a solve, and when it returns, the number of invocations equals
\* nodes_explored.  Each invocation is made by a node that has not selected
\* its cell yet, in the step that counts the node, and passes the board and
\* the most recent trace entry of that moment (the empty string when the
\* trace is empty).  Without an observer nothing is invoked.
C20_StepObserver ==
    /\ [](phase \in {"solving", "returned"} =>
            cb_count = IF step_callback THEN nodes_explored ELSE 0)
    /\ [][cb_count' > cb_count =>
            /\ step_callback
            /\ Running /\ Top.pc = "enter" /\ Top.row = -1
            /\ cb_count' = cb_count + 1
            /\ nodes_explored' = nodes_explored + 1
            /\ cb_last' = [grid |-> GridOf(heap, working_board),
                           entry |-> MostRecentEntry]
            /\ explanations' = explanations
            /\ stack' = SetTop([Top EXCEPT !.pc = "select"])]_vars

\* a solve with an observer and a trace returned after several nodes; the
\* last invocation was given a trace entry
C20_Witness ==
    /\ Returned
    /\ step_callback
    /\ generate_explanations
    /\ nodes_explored > 2
    /\ cb_count = nodes_explored
    /\ cb_last.entry # Msg("")
    /\ \E i \in 1 .. Len(explanations) : explanations[i] = cb_last.entry

\* the first cell of S in row-major order
RowMajorFirst(S) ==
    CHOOSE x \in S : \A y \in S : x[1] < y[1] \/ (x[1] = y[1] /\ x[2] <= y[2])

\* the number of candidates of cell x of grid g
CandidateCount(g, n, x) == Cardinality(CandidateSet(g, n, x[1], x[2]))

\* the cell the selection rule names on grid g
RuleCell(g, n) ==
    LET empty == EmptyCells(g, n)
        dead == {x \in empty : CandidateCount(g, n, x) = 0}
    IN IF empty = {} THEN NoCell
       ELSE IF ~use_mrv THEN RowMajorFirst(empty)
       ELSE IF dead # {} THEN RowMajorFirst(dead)
       ELSE RowMajorFirst({x \in empty : \A y \in empty :
               CandidateCount(g, n, x) <= CandidateCount(g, n, y)})

\* C23: on every working board of a search, _select_unassigned_variable
\* returns, with MRV disabled, the first empty cell in row-major order; with
\* MRV enabled, the first empty cell without candidates if there is one, else
\* the row-major-first of the empty cells with the minimum candidate count;
\* and it returns no cell exactly when the board has no empty cell.
C23_VariableSelection ==
    phase = "solving" =>
       LET g == GridOf(heap, working_board)
           cell == _select_unassigned_variable(heap, working_board,
                                               explanations).cell
       IN /\ cell = RuleCell(g, working_board.n)
          /\ cell = NoCell <=> EmptyCells(g, working_board.n) = {}

\* a node selects under MRV a cell that is not the first empty one, on a
\* board where another empty cell has as few candidates and none has zero
C23_Witness ==
    /\ Running /\ Top.pc = "select" /\ use_mrv
    /\ LET g == GridOf(heap, working_board)
           n == working_board.n
           empty == EmptyCells(g, n)
       IN /\ SelectedCell # RowMajorFirst(empty)
          /\ \A x \in empty : CandidateCount(g, n, x) > 0
          /\ \E x \in empty :
                /\ x # SelectedCell
                /\ CandidateCount(g, n, x) = CandidateCount(g, n, SelectedCell)

\* grid g holds every nonzero value of grid clues in the same cell
KeepsClues(g, clues, n) ==
    \A x \in Cells(n) :
        clues[x[1]][x[2]] # 0 => g[x[1]][x[2]] = clues[x[1]][x[2]]

\* C24: the engine assigns only cells that were empty in the input: in every
\* state of a search the working board agrees with the input on every cell
\* that was nonzero in the input, and so does the board returned with
\* success.
C24_CluePreservation ==
    /\ phase = "solving" =>
          KeepsClues(GridOf(heap, working_board), input0, board.n)
    /\ (Returned /\ result.success) =>
          KeepsClues(GridOf(heap, result.board), input0, board.n)

\* solve returned with success a board of which the input gave some cells
\* and left several empty
C24_Witness ==
    /\ Returned /\ result.success
    /\ Cardinality(EmptyCells(input0, board.n)) >= 3
    /\ Cardinality(EmptyCells(input0, board.n)) < 16
    /\ backtrack_count > 0

\* the working board on entry of the call at depth i of the stack: the input
\* with the trial values of the calls below it
EntryGrid(i) ==
    [r \in Idx(working_board) |-> [c \in Idx(working_board) |->
        IF \E j \in 1 .. (i - 1) : stack[j].row = r /\ stack[j].col = c
        THEN LET j == CHOOSE j \in 1 .. (i - 1) :
                         stack[j].row = r /\ stack[j].col = c
             IN stack[j].candidates[stack[j].idx]
        ELSE input0[r][c]]]

\* C25: a call of _backtrack starts on the input with the trial values of
\* its callers, its callers' frames do not change while it runs, and when it
\* returns failure the working board is cell for cell what it was on entry;
\* so when the root call has returned failure the working board equals the
\* input.
C25_UndoDiscipline ==
    /\ []((Running /\ Top.pc = "enter") =>
            GridOf(heap, working_board) = EntryGrid(Len(stack)))
    /\ [][(Running /\ phase' = "solving" /\ Len(stack') >= Len(stack)) =>
            SubSeq(stack', 1, Len(stack) - 1) =
               SubSeq(stack, 1, Len(stack) - 1)]_vars
    /\ [][(Running /\ stack' = Pop /\ ret' = "False") =>
            GridOf(heap', working_board) = EntryGrid(Len(stack))]_vars
    /\ []((phase = "solving" /\ stack = <<>> /\ ret = "False") =>
            GridOf(heap, working_board) = input0)

\* the root call has returned failure after calls at depth three or more
\* failed and trial values were undone
C25_Witness ==
    /\ phase = "solving" /\ stack = <<>> /\ ret = "False"
    /\ undone >= 3
    /\ nodes_explored >= 5

\* C26: every solve that is called returns, on every input and under every
\* combination of the two heuristics; a call of _backtrack at depth d starts
\* on a board with d - 1 more filled cells than the input, so the depth of
\* the recursion never exceeds the number of empty cells of the input plus
\* one.
C26_Termination ==
    /\ (phase = "solving") ~> (phase = "returned")
    /\ [](phase = "solving" =>
            Len(stack) <= Cardinality(EmptyCells(input0, board.n)) + 1)
    /\ []((Running /\ Top.pc = "enter") =>
            Cardinality(EmptyCells(GridOf(heap, working_board), board.n)) =
               Cardinality(EmptyCells(input0, board.n)) - (Len(stack) - 1))

\* a solve has returned after a recursion as deep as the input allows
C26_Witness ==
    /\ Returned
    /\ Cardinality(EmptyCells(input0, board.n)) >= 4
    /\ calls > Cardinality(EmptyCells(input0, board.n))

\* C27: with forward checking enabled, every call of _backtrack below the
\* root is entered on a board where each empty cell has at least one
\* candidate, and the return for a selected cell without candidates is taken
\* by the root call only.
C27_ForwardCheckedEntry ==
    /\ []((Running /\ use_forward_checking /\ Len(stack) > 1) =>
            (Top.pc \in {"enter", "select"} =>
               \A x \in EmptyCells(GridOf(heap, working_board), board.n) :
                  CandidateCount(GridOf(heap, working_board), board.n, x)
                     > 0))
    /\ [][(DeadEndNode /\ use_forward_checking) => Len(stack) = 1]_vars

\* with forward checking enabled, after trial values were rejected or
\* undone, a call at depth three is about to select its cell
C27_Witness ==
    /\ Running /\ use_forward_checking
    /\ Len(stack) >= 3 /\ Top.pc = "select"
    /\ backtrack_count > 0

\* the calls of _backtrack on the path to the solution, the root excluded
OnPath == IF result.success THEN Cardinality(EmptyCells(input0, board.n))
          ELSE 0

\* C28: when solve has returned with forward checking disabled,
\* nodes_explored = backtrack_count + E + 1 on success (E the number of empty
\* cells of the input) and nodes_explored = backtrack_count + 1 on failure;
\* with forward checking enabled backtrack_count is at least
\* nodes_explored - 1 - E on success and at least nodes_explored - 1 on
\* failure.
C28_CounterRelation ==
    Returned =>
       IF use_forward_checking
       THEN backtrack_count >= nodes_explored - 1 - OnPath
       ELSE nodes_explored = backtrack_count + OnPath + 1

\* a solve without forward checking has succeeded on an input with three or
\* more empty cells after two or more calls failed
C28_Witness ==
    /\ Returned /\ result.success /\ ~use_forward_checking
    /\ backtrack_count >= 2
    /\ Cardinality(EmptyCells(input0, board.n)) >= 3

\* C29: whenever from_string raises, on a string of the wrong length or on a
\* character that decodes to a value greater than side, every cell of the
\* board has the value it had before the call.
C29_FailedLoadKeepsBoard ==
    [][\A s \in StringInputs \cup {puzzle} :
          (BoardFromString(s) /\ raised' = "ValueError") =>
             GridOf(heap', board) = GridOf(heap, board)]_vars

\* the cells of the diagonal boxes of a board of box size n
DiagonalCells(n) == {x \in Cells(n) : x[1] \div n = x[2] \div n}

\* C21: the board that _fill_diagonal_boxes has filled holds no value twice
\* in a row, a column or a box (its diagonal boxes are full, the other cells
\* empty), for every outcome of the shuffles; and every board that
\* _generate_solution returns satisfies is_valid_solution() and has the
\* seeded values in the diagonal boxes.
C21_GeneratorGrid ==
    /\ phase = "ready" =>
          /\ NoDuplicate(GridOf(heap, board), board.n)
          /\ EmptyCells(GridOf(heap, board), board.n) =
                Cells(board.n) \ DiagonalCells(board.n)
    /\ (phase \in {"returned", "generated"} /\ result.success) =>
          /\ is_valid_solution(heap, result.board)
          /\ SolvedGrid(GridOf(heap, result.board), board.n)
          /\ \A x \in DiagonalCells(board.n) :
                get(heap, result.board, x[1], x[2]) =
                   get(heap, board, x[1], x[2])

\* _generate_solution returns a 9x9 grid that the solver completed after
\* undoing trial values
C21_Witness ==
    /\ phase = "returned" /\ result.success
    /\ board.n = 3
    /\ backtrack_count > 0

C30_SeedingCompletable ==
    generator.n = 2 =>
       /\ Returned => result.success
       /\ generator.attempt = 0
       /\ phase # "failed"

====
